---------------------------- MODULE Spec2Model ----------------------------
(***************************************************************************)
(* Content-acquisition and summarisation pipeline of the Stock-Market-Agent *)
(* repository: query enhancement, search, extraction and cleaning,         *)
(* accessibility filtering, per-document distillation and report           *)
(* synthesis, together with the three Streamlit front ends that drive them. *)
(*                                                                         *)
(* Python strings are TLA+ strings (Len, \o, SubSeq, Head and Tail act on   *)
(* them character by character), Python lists are sequences, dicts are     *)
(* records.  A Python call either returns a value or raises an exception;  *)
(* both outcomes are values of the model (Ret, Raise), and a try/except is  *)
(* the test of the raised exception's classes against the handler's class.  *)
(***************************************************************************)
EXTENDS Integers, Sequences, FiniteSets, TLC

VARIABLES
    mode,                \* which program runs: "unit", "app", "app3" or "dl"
    call,                \* unit mode: the last direct call of a function and its outcome
    search_results,      \* st.session_state.search_results (Absent: no such attribute)
    session_user_query,  \* st.session_state.user_query of app3.py
    distilled_articles,  \* st.session_state.distilled_articles of dl.py
    distilled_src,       \* ghost: the articles handed to distill_individual_article,
                         \*        one per record of distilled_articles
    fetched,             \* ghost: what search_and_extract returned to the last Search
    probes,              \* ghost: outcome of the HEAD probe of each item of fetched
    ui,                  \* what the last script run displayed
    calls                \* how often the last script run invoked each stage

vars == <<mode, call, search_results, session_user_query, distilled_articles,
          distilled_src, fetched, probes, ui, calls>>

-----------------------------------------------------------------------------
(* Python values *)

\* Python's None where a string is expected (no text of the model equals it)
None == "None"

NoExc == [cls |-> {}, msg |-> ""]
Exc(classes, msg) == [cls |-> classes, msg |-> msg]
Ret(v) == [raised |-> FALSE, value |-> v, exc |-> NoExc]
\* a raising call has no value: the empty placeholder stands in its value field
Raise(e) == [raised |-> TRUE, value |-> <<>>, exc |-> e]

\* isinstance(e, cls): the handler "except cls" takes the exception e
Catches(cls, e) == cls \in e.cls

RequestExceptionCls == {"RequestException", "Exception"}
ReadTimeout == Exc({"ReadTimeout", "Timeout"} \cup RequestExceptionCls,
                   "Read timed out. (read timeout=10)")
ConnectTimeout == Exc({"ConnectTimeout", "ConnectionError", "Timeout"} \cup RequestExceptionCls,
                      "Connection to host timed out. (connect timeout=10)")
ConnectionErrorExc == Exc({"ConnectionError"} \cup RequestExceptionCls,
                          "Failed to establish a new connection")
TooManyRedirects == Exc({"TooManyRedirects"} \cup RequestExceptionCls,
                        "Exceeded 30 redirects.")
ParserError == Exc({"RecursionError", "Exception"}, "maximum recursion depth exceeded")

\* str.startswith(prefix)
startswith(s, prefix) ==
    Len(s) >= Len(prefix) /\ SubSeq(s, 1, Len(prefix)) = prefix

\* str.endswith(suffix)
endswith(s, suffix) ==
    Len(s) >= Len(suffix) /\ SubSeq(s, Len(s) - Len(suffix) + 1, Len(s)) = suffix

\* the characters str.strip() removes
Whitespace == {" ", "\t", "\n", "\r"}

RECURSIVE lstrip(_)
lstrip(s) == IF s # "" /\ Head(s) \in Whitespace THEN lstrip(Tail(s)) ELSE s

RECURSIVE rstrip(_)
rstrip(s) ==
    IF s # "" /\ SubSeq(s, Len(s), Len(s)) \in Whitespace
    THEN rstrip(SubSeq(s, 1, Len(s) - 1))
    ELSE s

\* str.strip()
strip(s) == rstrip(lstrip(s))

\* s repeated n times ("x" * n), built by doubling
RECURSIVE Repeat(_, _)
Repeat(s, n) ==
    IF n = 0 THEN ""
    ELSE IF n % 2 = 0 THEN LET h == Repeat(s, n \div 2) IN h \o h
    ELSE s \o Repeat(s, n - 1)


-----------------------------------------------------------------------------
(* The language-model service: what one chat-completion call can do *)

\* [kind, text]: a reply with its text, an API error with its message, a
\* response with an empty choices list, a response whose message content is
\* null, or (key-based variant only) a failure to build the client.
LlmReply(text) == [kind |-> "reply", text |-> text]
LlmApiError(msg) == [kind |-> "api_error", text |-> msg]
LlmNoChoices == [kind |-> "no_choices", text |-> ""]
LlmNullContent == [kind |-> "null_content", text |-> ""]
LlmInitError == [kind |-> "init_error", text |-> "The api_key client option must be set"]

\* the evaluation of response.choices[0].message.content after create(...)
CompletionContent(llm) ==
    CASE llm.kind = "reply" -> Ret(llm.text)
      [] llm.kind = "api_error" -> Raise(Exc({"APIError", "Exception"}, llm.text))
      [] llm.kind = "init_error" -> Raise(Exc({"OpenAIError", "Exception"}, llm.text))
      [] llm.kind = "no_choices" ->
            Raise(Exc({"IndexError", "Exception"}, "list index out of range"))
      [] OTHER -> Ret(None)

\* .strip() of the content c: None has no strip
StripOf(llm, c) ==
    IF c.raised THEN c
    ELSE IF llm.kind = "null_content"
         THEN Raise(Exc({"AttributeError", "Exception"},
                        "'NoneType' object has no attribute 'strip'"))
         ELSE Ret(strip(c.value))

\* response.choices[0].message.content.strip()
StrippedContent(llm) == StripOf(llm, CompletionContent(llm))

-----------------------------------------------------------------------------
(* 4.1 QueryEnhancer *)

\* a handler that tidies the query it falls back to
EnhanceFallbackStripped(user_query, e) ==
    IF Catches("Exception", e) THEN Ret(strip(user_query)) ELSE Raise(e)

\* except Exception: return user_query
EnhanceFallback(user_query, e) ==
    IF Catches("Exception", e) THEN Ret(user_query) ELSE Raise(e)

\* the try block and its handler, body being what the try block did
EnhanceResult(user_query, body) ==
    IF body.raised THEN EnhanceFallback(user_query, body.exc) ELSE body

\* enhance_query_with_llm of both variants: the key-based one builds its
\* client inside the try, the keyless one has none to build.
enhance_query_with_llm(variant, user_query, llm) ==
    EnhanceResult(user_query, StrippedContent(llm))

-----------------------------------------------------------------------------
(* 4.2 SearchBackend *)

\* the default of the num_results parameter of both search functions
DefaultNumResults == 2

\* the first n elements of a sequence
Take(seq, n) == SubSeq(seq, 1, IF Len(seq) < n THEN Len(seq) ELSE n)

\* The keyless library, search(query, num_results=n): it yields the ranked
\* hits, at most n of them, or raises (blocked, rate-limited, no network).
\* backend = [kind, ranked]
LibrarySearch(backend, n) ==
    IF backend.kind = "ok" THEN Ret(Take(backend.ranked, n))
    ELSE Raise(Exc({"HTTPError", "RequestException", "Exception"},
                   "429 Client Error: Too Many Requests"))

\* a search without its handler: the exception leaves the function
SearchHandlerMissing(r) == r

\* except Exception: return []
SearchHandler(r) ==
    IF r.raised
    THEN IF Catches("Exception", r.exc) THEN Ret(<<>>) ELSE r
    ELSE r

\* try: list(search(query, num_results=num_results)) except Exception: []
google_search(query, num_results, backend) ==
    SearchHandler(LibrarySearch(backend, num_results))

\* The Custom Search JSON API called with num = n: a refused connection, an
\* error status, a body that is not JSON, a JSON object without "items", an
\* item without "link", or at most n items each with its link.
\* The value is the list of links the loop over result["items"] collects.
ApiSearchBody(backend, n) ==
    CASE backend.kind = "ok" -> Ret(Take(backend.ranked, n))
      [] backend.kind = "no_items" -> Ret(<<>>)
      [] backend.kind = "conn_error" -> Raise(ConnectionErrorExc)
      [] backend.kind = "http_error" ->
            Raise(Exc({"HTTPError", "RequestException", "Exception"},
                      "403 Client Error: Forbidden for url: https://www.googleapis.com/customsearch/v1"))
      [] backend.kind = "not_json" ->
            Raise(Exc({"JSONDecodeError", "ValueError", "Exception"}, "Expecting value"))
      [] OTHER -> Raise(Exc({"KeyError", "Exception"}, "'link'"))

\* a search of the API without its handler: the exception leaves the function
ApiSearchUnhandled(query, num_results, backend) == ApiSearchBody(backend, num_results)

google_api_search(query, num_results, backend) ==
    SearchHandler(ApiSearchBody(backend, num_results))

-----------------------------------------------------------------------------
(* 4.3 ContentExtractor *)

\* re.sub(c+, c, text) on text[lo..hi]: a character c that follows another c
\* is dropped.  The range is halved, so that a text of 15,000 characters
\* needs only a shallow recursion.
RECURSIVE Squeeze(_, _, _, _)
Squeeze(text, c, lo, hi) ==
    IF lo > hi THEN ""
    ELSE IF lo = hi
         THEN IF SubSeq(text, lo, lo) = c /\ lo > 1 /\ SubSeq(text, lo - 1, lo - 1) = c
              THEN ""
              ELSE SubSeq(text, lo, lo)
         ELSE LET mid == (lo + hi) \div 2
              IN  Squeeze(text, c, lo, mid) \o Squeeze(text, c, mid + 1, hi)

\* re.sub(r'\n+', '\n', text) and re.sub(r' +', ' ', text)
re_sub_runs(c, text) == Squeeze(text, c, 1, Len(text))

\* text.split('\n')
RECURSIVE split_newline(_)
split_newline(text) ==
    LET at == {i \in 1..Len(text) : SubSeq(text, i, i) = "\n"}
    IN  IF at = {} THEN <<text>>
        ELSE LET first == CHOOSE i \in at : \A j \in at : i <= j
             IN  <<SubSeq(text, 1, first - 1)>>
                   \o split_newline(SubSeq(text, first + 1, Len(text)))

\* ' '.join(lines)
RECURSIVE join_space(_)
join_space(lines) ==
    IF Len(lines) = 0 THEN ""
    ELSE IF Len(lines) = 1 THEN lines[1]
    ELSE lines[1] \o " " \o join_space(Tail(lines))

\* a filter that keeps the empty lines
AnyLine(line) == TRUE

\* [line for line in lines if line]
NonEmptyLine(line) == line # ""

clean_text(text) ==
    LET t1 == re_sub_runs("\n", text)
        t2 == re_sub_runs(" ", t1)
        split == split_newline(t2)
        lines == [i \in 1..Len(split) |-> strip(split[i])]
    IN  join_space(SelectSeq(lines, NonEmptyLine))

\* the cap of extract_content and the suffix it appends
ContentCap == 10000
TruncationMarker == "... [content truncated]"

\* a cap that makes room for the marker inside the 10,000 characters
TruncateWithinCap(clean_content) ==
    IF Len(clean_content) > ContentCap
    THEN SubSeq(clean_content, 1, ContentCap - Len(TruncationMarker)) \o TruncationMarker
    ELSE clean_content

\* a cap that also cuts a text of exactly 10,000 characters
TruncateFromCap(clean_content) ==
    IF Len(clean_content) >= ContentCap
    THEN SubSeq(clean_content, 1, ContentCap) \o TruncationMarker
    ELSE clean_content

\* if len(clean_content) > 10000: clean_content[:10000] + marker
Truncate(clean_content) ==
    IF Len(clean_content) > ContentCap
    THEN SubSeq(clean_content, 1, ContentCap) \o TruncationMarker
    ELSE clean_content

\* the elements extract_content removes from the parsed page
StrippedTags == {"script", "style", "nav", "footer", "header", "aside", "form"}

\* soup.get_text() after the removal: a page is the sequence of its top
\* elements [tag, text]; the text of the kept ones, in document order
RECURSIVE get_text(_)
get_text(page) ==
    IF Len(page) = 0 THEN ""
    ELSE (IF page[1].tag \in StrippedTags THEN "" ELSE page[1].text)
           \o get_text(Tail(page))

\* str(e) of the HTTPError of response.raise_for_status()
HttpErrorMessage(status, reason, url) ==
    status \o (IF Head(status) = "4" THEN " Client Error: " ELSE " Server Error: ")
           \o reason \o " for url: " \o url

\* The outcome of the GET and of the parse: fetch = [kind, exc, status, reason, page]:
\* "exc" (requests.get raises exc), "http" (a 4xx/5xx response: raise_for_status
\* raises), "parse_error" (BeautifulSoup raises exc), "page" (a parsed page).
ExtractBody(url, fetch) ==
    CASE fetch.kind = "exc" -> Raise(fetch.exc)
      [] fetch.kind = "http" ->
            Raise(Exc({"HTTPError"} \cup RequestExceptionCls,
                      HttpErrorMessage(fetch.status, fetch.reason, url)))
      [] fetch.kind = "parse_error" -> Raise(fetch.exc)
      [] OTHER -> Ret(Truncate(clean_text(get_text(fetch.page))))

\* except clauses with the general RequestException placed first
ExtractHandlersGeneralFirst(url, e) ==
    IF Catches("RequestException", e)
    THEN Ret("Error: Request exception " \o e.msg \o " for " \o url)
    ELSE IF Catches("Timeout", e) THEN Ret("Error: Request timed out for " \o url)
    ELSE IF Catches("ConnectionError", e) THEN Ret("Error: Connection error for " \o url)
    ELSE IF Catches("HTTPError", e)
         THEN Ret("Error: HTTP error " \o e.msg \o " for " \o url)
    ELSE IF Catches("Exception", e)
         THEN Ret("Error extracting content: " \o e.msg \o " for " \o url)
    ELSE Raise(e)

\* the except clauses of extract_content, tried in their order
ExtractHandlers(url, e) ==
    IF Catches("Timeout", e) THEN Ret("Error: Request timed out for " \o url)
    ELSE IF Catches("ConnectionError", e) THEN Ret("Error: Connection error for " \o url)
    ELSE IF Catches("HTTPError", e)
         THEN Ret("Error: HTTP error " \o e.msg \o " for " \o url)
    ELSE IF Catches("RequestException", e)
         THEN Ret("Error: Request exception " \o e.msg \o " for " \o url)
    ELSE IF Catches("Exception", e)
         THEN Ret("Error extracting content: " \o e.msg \o " for " \o url)
    ELSE Raise(e)

\* the try block and its handlers, body being what the try block did
ExtractResult(url, body) ==
    IF body.raised THEN ExtractHandlers(url, body.exc) ELSE body

extract_content(url, fetch) == ExtractResult(url, ExtractBody(url, fetch))

-----------------------------------------------------------------------------
(* 4.7 Pipeline: search_and_extract *)

\* {"url": url, "content": content}
Document(url, content) == [url |-> url, content |-> content]

\* the element of the list returned when the search yields no URL: a string
NoResultsSignal == [str |-> "No results found for the query."]

\* isinstance(item, dict): item['url'] is defined
IsDocument(item) == "url" \in DOMAIN item

Event(op, arg) == [op |-> op, arg |-> arg]

\* a loop that records only the documents whose fetch gave a text
PrependFetched(item, events, rest) ==
    [raised |-> rest.raised, exc |-> rest.exc,
     results |-> (IF startswith(item.content, "Error") THEN <<>> ELSE <<item>>)
                   \o rest.results,
     events |-> events \o rest.events]

\* a loop that puts each new document in front of the list
PrependNewestFirst(item, events, rest) ==
    [raised |-> rest.raised, exc |-> rest.exc,
     results |-> rest.results \o <<item>>, events |-> events \o rest.events]

\* what the rest of a loop returns, with one more result and its events in front
Prepend(item, events, rest) ==
    [raised |-> rest.raised, exc |-> rest.exc,
     results |-> <<item>> \o rest.results, events |-> events \o rest.events]

\* The for loop of search_and_extract from index i on: one extract_content
\* and one append per URL, time.sleep(1) after every URL but the last.
\* [raised, exc, results, events]
RECURSIVE ExtractLoop(_, _, _)

\* a loop body that sleeps after every URL, the last one included
ExtractStepSleepAlways(urls, fetches, i, c) ==
    IF c.raised
    THEN [raised |-> TRUE, exc |-> c.exc, results |-> <<>>,
          events |-> <<Event("fetch", urls[i])>>]
    ELSE Prepend(Document(urls[i], c.value),
                 <<Event("fetch", urls[i]), Event("sleep", "1")>>,
                 ExtractLoop(urls, fetches, i + 1))

\* the body of the loop for the i-th URL, c being what extract_content returned
ExtractStep(urls, fetches, i, c) ==
    IF c.raised
    THEN [raised |-> TRUE, exc |-> c.exc, results |-> <<>>,
          events |-> <<Event("fetch", urls[i])>>]
    ELSE Prepend(Document(urls[i], c.value),
                 <<Event("fetch", urls[i])>>
                   \o (IF i < Len(urls) THEN <<Event("sleep", "1")>> ELSE <<>>),
                 ExtractLoop(urls, fetches, i + 1))

ExtractLoop(urls, fetches, i) ==
    IF i > Len(urls)
    THEN [raised |-> FALSE, exc |-> NoExc, results |-> <<>>, events |-> <<>>]
    ELSE ExtractStep(urls, fetches, i, extract_content(urls[i], fetches[i]))

\* the search function of the variant, called with its default num_results
SearchUrls(variant, query, backend) ==
    IF variant = "keyless"
    THEN google_search(query, DefaultNumResults, backend)
    ELSE google_api_search(query, DefaultNumResults, backend)

\* the return of search_and_extract after its loop
ExtractAll(events, loop) ==
    [raised |-> loop.raised, exc |-> loop.exc, value |-> loop.results,
     events |-> events \o loop.events]

\* a pipeline without the early return: no URL gives the empty list of the
\* loop, and nothing tells it from a run that found no document
AfterSearchNoSignal(urls, fetches, events) ==
    IF urls.raised
    THEN [raised |-> TRUE, exc |-> urls.exc, value |-> <<>>, events |-> events]
    ELSE ExtractAll(events, ExtractLoop(urls.value, fetches, 1))

\* search_and_extract after the search returned urls; events: those so far
AfterSearch(urls, fetches, events) ==
    IF urls.raised
    THEN [raised |-> TRUE, exc |-> urls.exc, value |-> <<>>, events |-> events]
    ELSE IF urls.value = <<>>
    THEN [raised |-> FALSE, exc |-> NoExc, value |-> <<NoResultsSignal>>,
          events |-> events]
    ELSE ExtractAll(events, ExtractLoop(urls.value, fetches, 1))

\* search_and_extract after the enhancement returned enhanced
AfterEnhance(variant, user_query, enhanced, backend, fetches) ==
    IF enhanced.raised
    THEN [raised |-> TRUE, exc |-> enhanced.exc, value |-> <<>>,
          events |-> <<Event("enhance", user_query)>>]
    ELSE AfterSearch(SearchUrls(variant, enhanced.value, backend), fetches,
                     <<Event("enhance", user_query), Event("search", enhanced.value)>>)

\* search_and_extract(user_query) of the variant.  llm, backend and fetches
\* (one outcome per position of the URL list) are what the outside world does.
\* [raised, exc, value, events]
search_and_extract(variant, user_query, llm, backend, fetches) ==
    AfterEnhance(variant, user_query, enhance_query_with_llm(variant, user_query, llm),
                 backend, fetches)

-----------------------------------------------------------------------------
(* The pipeline the front ends import *)

\* the publication date the pipeline attaches to a document
PublicationDate(url) == IF startswith(url, "https://a.") THEN "2024-05-01" ELSE "Unknown"

\* {"url", "publication_date", "content"}
Article(url, date, content) == [url |-> url, publication_date |-> date, content |-> content]

WithPublicationDate(item) ==
    IF IsDocument(item)
    THEN Article(item.url, PublicationDate(item.url), item.content)
    ELSE item

Dated(r) ==
    [raised |-> r.raised, exc |-> r.exc, events |-> r.events,
     value |-> [i \in 1..Len(r.value) |-> WithPublicationDate(r.value[i])]]

\* data_collection.google_latest.search_and_extract(user_query, want_recent):
\* the search_and_extract of the keyless variant, whose documents also carry
\* their publication date.
google_latest_search_and_extract(user_query, want_recent, llm, backend, fetches) ==
    Dated(search_and_extract("keyless", user_query, llm, backend, fetches))

TypeErrorStrIndex ==
    Exc({"TypeError", "Exception"}, "string indices must be integers")

-----------------------------------------------------------------------------
(* 4.4 AccessibilityFilter (app3.py) *)

\* a check that takes every error status for a refusal
ProbeBodyNoErrorStatus(url, probe) ==
    IF probe.kind = "response" THEN Ret(probe.status < 400) ELSE Raise(probe.exc)

\* What requests.head(url, timeout=5) does: probe = [kind, status, exc], a
\* response with its status code or an exception of requests.
ProbeBody(url, probe) ==
    IF probe.kind = "response" THEN Ret(probe.status # 403) ELSE Raise(probe.exc)

\* except RequestException: return False
ProbeHandler(r) ==
    IF r.raised
    THEN IF Catches("RequestException", r.exc) THEN Ret(FALSE) ELSE r
    ELSE r

check_url_accessibility(url, probe) == ProbeHandler(ProbeBody(url, probe))

\* a filter loop that appends the item whatever the verdict
FilterPrependAlways(item, i, keep, rest) ==
    [raised |-> rest.raised, exc |-> rest.exc,
     value |-> <<item>> \o rest.value,
     kept |-> <<i>> \o rest.kept,
     nprobes |-> 1 + rest.nprobes]

\* a filter loop that puts the item it keeps behind those kept after it
FilterPrependLast(item, i, keep, rest) ==
    [raised |-> rest.raised, exc |-> rest.exc,
     value |-> rest.value \o (IF keep THEN <<item>> ELSE <<>>),
     kept |-> rest.kept \o (IF keep THEN <<i>> ELSE <<>>),
     nprobes |-> 1 + rest.nprobes]

\* what the rest of the filter loop returns, after the i-th item got verdict keep
FilterPrepend(item, i, keep, rest) ==
    [raised |-> rest.raised, exc |-> rest.exc,
     value |-> (IF keep THEN <<item>> ELSE <<>>) \o rest.value,
     kept |-> (IF keep THEN <<i>> ELSE <<>>) \o rest.kept,
     nprobes |-> 1 + rest.nprobes]

\* The loop of filter_accessible_content from index i on; probe_outcomes[i]
\* is what the probe of the i-th item does.  kept: the indices appended,
\* nprobes: the probes issued.  [raised, exc, value, kept, nprobes]
RECURSIVE FilterLoop(_, _, _)

\* the body of the loop for the i-th item, v being what the check returned
FilterStep(content_list, probe_outcomes, i, v) ==
    IF v.raised
    THEN [raised |-> TRUE, exc |-> v.exc, value |-> <<>>, kept |-> <<>>, nprobes |-> 1]
    ELSE FilterPrepend(content_list[i], i, v.value,
                       FilterLoop(content_list, probe_outcomes, i + 1))

FilterLoop(content_list, probe_outcomes, i) ==
    IF i > Len(content_list)
    THEN [raised |-> FALSE, exc |-> NoExc, value |-> <<>>, kept |-> <<>>, nprobes |-> 0]
    ELSE IF ~IsDocument(content_list[i])
    THEN [raised |-> TRUE, exc |-> TypeErrorStrIndex, value |-> <<>>,
          kept |-> <<>>, nprobes |-> 0]
    ELSE FilterStep(content_list, probe_outcomes, i,
                    check_url_accessibility(content_list[i].url, probe_outcomes[i]))

filter_accessible_content(content_list, probe_outcomes) ==
    FilterLoop(content_list, probe_outcomes, 1)

-----------------------------------------------------------------------------
(* 4.5 Distiller (dl.py) *)

DistilledRecord(article, text) ==
    [url |-> article.url, publication_date |-> article.publication_date,
     distilled_content |-> text]

DistillErrorPrefix == "Error in distillation: "

\* a distillation without its handler: the exception leaves the function
DistillHandlerMissing(article, e) == Raise(e)

\* except Exception as e: the record with the error text as its content
DistillHandler(article, e) ==
    IF Catches("Exception", e)
    THEN Ret(DistilledRecord(article, DistillErrorPrefix \o e.msg))
    ELSE Raise(e)

\* the try block and its handler, body being what the completion call did
DistillResult(article, body) ==
    IF body.raised THEN DistillHandler(article, body.exc)
    ELSE Ret(DistilledRecord(article, body.value))

distill_individual_article(article, user_query, llm) ==
    IF ~IsDocument(article) THEN Raise(TypeErrorStrIndex)
    ELSE DistillResult(article, CompletionContent(llm))

\* the 403 phrasing both filters of dl.py match the stored content against
ForbiddenPrefix == "Error: HTTP error 403 Client Error: Forbidden for url:"

\* item['content'].startswith(...) of the comprehensions of dl.py
IsForbiddenContent(item) == startswith(item.content, ForbiddenPrefix)

\* [item for item in results if not item['content'].startswith(...)]: Raise
\* when an element is a string, else the kept elements
FilterForbidden(results) ==
    IF \E i \in 1..Len(results) : ~IsDocument(results[i])
    THEN Raise(TypeErrorStrIndex)
    ELSE Ret(SelectSeq(results, LAMBDA item : ~IsForbiddenContent(item)))

DistillPrepend(record, rest) ==
    [raised |-> rest.raised, exc |-> rest.exc,
     value |-> <<record>> \o rest.value, ncalls |-> 1 + rest.ncalls]

\* The distillation loop over filtered_content from index i on; llms[i] is
\* what the language model does on the i-th call.  [raised, exc, value, ncalls]
RECURSIVE DistillLoop(_, _, _, _)

\* a loop that gives up at the first distillation that failed
DistillStepStopOnError(filtered_content, user_query, llms, i, d) ==
    IF d.raised
    THEN [raised |-> TRUE, exc |-> d.exc, value |-> <<>>, ncalls |-> 1]
    ELSE IF startswith(d.value.distilled_content, DistillErrorPrefix)
    THEN [raised |-> FALSE, exc |-> NoExc, value |-> <<d.value>>, ncalls |-> 1]
    ELSE DistillPrepend(d.value, DistillLoop(filtered_content, user_query, llms, i + 1))

\* the body of the loop, d being what distill_individual_article returned
DistillStep(filtered_content, user_query, llms, i, d) ==
    IF d.raised
    THEN [raised |-> TRUE, exc |-> d.exc, value |-> <<>>, ncalls |-> 1]
    ELSE DistillPrepend(d.value, DistillLoop(filtered_content, user_query, llms, i + 1))

DistillLoop(filtered_content, user_query, llms, i) ==
    IF i > Len(filtered_content)
    THEN [raised |-> FALSE, exc |-> NoExc, value |-> <<>>, ncalls |-> 0]
    ELSE DistillStep(filtered_content, user_query, llms, i,
                     distill_individual_article(filtered_content[i], user_query, llms[i]))

-----------------------------------------------------------------------------
(* 4.6 ReportSynthesizer *)

\* except Exception as e: return the prefix and str(e)
SynthesisResult(prefix, body) ==
    IF body.raised
    THEN IF Catches("Exception", body.exc) THEN Ret(prefix \o body.exc.msg) ELSE body
    ELSE body

\* generate_report_from_distilled_content of dl.py
generate_report_from_distilled_content(distilled, user_query, llm) ==
    SynthesisResult("Error in report generation: ", CompletionContent(llm))

\* analyze_with_chatgpt of app3.py
analyze_with_chatgpt(content_list, user_query, llm) ==
    SynthesisResult("Error in ChatGPT analysis: ", CompletionContent(llm))

-----------------------------------------------------------------------------
(* What the outside world can do: the inputs of the model *)

\* how many hits the search backend may have for a query
MaxRanked == 3

Variants == {"keyless", "keyed"}

Queries == {"ev tax credits", "  tesla stock \n"}

UrlA == "https://a.example/news/ev-credits"
UrlB == "https://b.example/markets"
UrlC == "https://c.example/blog/" \o Repeat("p", 5000)
UrlList == <<UrlA, UrlB, UrlC>>

\* the i-th hit of the backend's ranking
HitAt(i) == UrlList[((i - 1) % Len(UrlList)) + 1]

\* the rankings a backend may hold: the first k hits, or two hits swapped
Rankings == {[i \in 1..k |-> HitAt(i)] : k \in 0..MaxRanked} \cup {<<UrlB, UrlA>>}

Backend(kind, ranked) == [kind |-> kind, ranked |-> ranked]

Backends(variant) ==
    {Backend("ok", r) : r \in Rankings} \cup
    (IF variant = "keyless"
     THEN {Backend("error", <<>>)}
     ELSE {Backend(k, <<>>) : k \in {"no_items", "conn_error", "http_error", "not_json"}}
            \cup {Backend("bad_item", <<UrlA>>)})

LlmOutcomes(variant) ==
    {LlmReply("  electric vehicle tax credit 2024 \n"), LlmReply(""),
     LlmApiError("Rate limit exceeded"), LlmNoChoices, LlmNullContent}
    \cup (IF variant = "keyed" THEN {LlmInitError} ELSE {})

Element(tag, text) == [tag |-> tag, text |-> text]

ShortPage ==
    <<Element("script", "var x = 1;"),
      Element("p", "  EV tax credit\n\n\n  rises   in 2024 \n"),
      Element("nav", "Home | About")>>

\* pages around the cap: exactly 10,000 cleaned characters, one more, 15,000,
\* a raw text over the cap whose cleaned text is under it, a text that itself
\* ends with the words of the truncation marker, tabs, and an empty page
Pages ==
    {ShortPage,
     <<>>,
     <<Element("p", Repeat("x", ContentCap))>>,
     <<Element("p", Repeat("x", ContentCap + 1))>>,
     <<Element("p", Repeat("x", 15000))>>,
     <<Element("p", Repeat("x", ContentCap - 10) \o "          \n\nab")>>,
     <<Element("p", "Preview of the filing" \o TruncationMarker)>>,
     <<Element("p", "a\t\tb  c")>>}

FetchPage(page) ==
    [kind |-> "page", exc |-> NoExc, status |-> "200", reason |-> "OK", page |-> page]
FetchExc(e) ==
    [kind |-> "exc", exc |-> e, status |-> "", reason |-> "", page |-> <<>>]
FetchHttp(status, reason) ==
    [kind |-> "http", exc |-> NoExc, status |-> status, reason |-> reason, page |-> <<>>]
FetchParseError ==
    [kind |-> "parse_error", exc |-> ParserError, status |-> "200", reason |-> "OK",
     page |-> <<>>]

Forbidden403 == FetchHttp("403", "Forbidden")

\* every outcome of one fetch
FetchOutcomes ==
    {FetchPage(p) : p \in Pages} \cup
    {FetchExc(e) : e \in {ReadTimeout, ConnectTimeout, ConnectionErrorExc, TooManyRedirects}}
    \cup {Forbidden403, FetchHttp("403", "FORBIDDEN"), FetchHttp("404", "Not Found"),
          FetchHttp("500", "Internal Server Error"), FetchParseError}

\* the outcomes a whole pipeline run draws from, per position of the URL list
RunFetchOutcomes ==
    {FetchPage(ShortPage), Forbidden403, FetchExc(ReadTimeout)}

RunFetches == [1..DefaultNumResults -> RunFetchOutcomes]

ProbeResponse(status) == [kind |-> "response", status |-> status, exc |-> NoExc]
ProbeExc(e) == [kind |-> "exc", status |-> 0, exc |-> e]

ProbeOutcomes ==
    {ProbeResponse(c) : c \in {200, 403, 404, 500}} \cup
    {ProbeExc(e) : e \in {ReadTimeout, ConnectionErrorExc, TooManyRedirects}}

\* the language model on a distillation or synthesis call
AnalysisLlmOutcomes ==
    {LlmReply("- Credit rises to $7,500"), LlmApiError("Rate limit exceeded"), LlmNoChoices}

\* the language model on a synthesis call: a report, a failure of the call,
\* a reply without choices, a reply whose content is null or the empty string
SynthesisLlmOutcomes ==
    AnalysisLlmOutcomes \cup {LlmNullContent, LlmReply("")}

-----------------------------------------------------------------------------
(* State *)

NoCall == [fn |-> "none"]

\* a session attribute: absent (hasattr is false) or holding a list
Absent == [set |-> FALSE, items |-> <<>>]
Stored(items) == [set |-> TRUE, items |-> items]

\* the calls one script run makes, the query it passed to search_and_extract
\* (None when it did not call it) and what the language model did on each of
\* the run's chat-completion calls, in the order of the calls
NoCalls == [enhance |-> 0, search |-> 0, fetch |-> 0, sleep |-> 0,
            probe |-> 0, distill |-> 0, synth |-> 0, query |-> None, llm |-> <<>>]

\* What one script run puts on the page: its messages in order, whether the
\* result tabs (with the Distill / Generate Analysis buttons) were drawn,
\* whether the Generate Report button was drawn, the list handed to the
\* synthesizer and the report it returned; search_query is the text of the query
\* box in a run whose Search button was clicked and None in the other runs.
BlankUi == [msgs |-> <<>>, tabs |-> FALSE, report_button |-> FALSE,
            synth_input |-> <<>>, report |-> None, search_query |-> None]

\* st.success / st.info / st.warning / st.error, or the exception Streamlit
\* shows when the script raises; n and m are the counts the text quotes
Msg(kind, what, n, m) == [kind |-> kind, what |-> what, n |-> n, m |-> m]

Modes == {"unit", "app", "app3", "dl"}

InitMode(m) ==
    /\ mode = m
    /\ call = NoCall
    /\ search_results = Absent
    /\ session_user_query = None
    /\ distilled_articles = Absent
    /\ distilled_src = <<>>
    /\ fetched = <<>>
    /\ probes = <<>>
    /\ ui = BlankUi
    /\ calls = NoCalls

Init == \E m \in Modes : InitMode(m)

SessionVars == <<search_results, session_user_query, distilled_articles, distilled_src,
                 fetched, probes, ui, calls>>

-----------------------------------------------------------------------------
(* Direct calls of the functions (the __main__ blocks, a test harness) *)

Idle == mode = "unit" /\ call = NoCall

CallEnhance ==
    /\ Idle
    /\ \E v \in Variants : \E q \in Queries \cup {""} : \E llm \in LlmOutcomes(v) :
         call' = [fn |-> "enhance_query_with_llm", variant |-> v, user_query |-> q,
                  llm |-> llm, ret |-> enhance_query_with_llm(v, q, llm)]
    /\ UNCHANGED <<mode, SessionVars>>

CallSearch ==
    /\ Idle
    /\ \E v \in Variants : \E b \in Backends(v) : \E n \in 1..DefaultNumResults :
         call' = [fn |-> "search", variant |-> v, num_results |-> n, backend |-> b,
                  ret |-> IF v = "keyless"
                          THEN google_search("ev tax credits", n, b)
                          ELSE google_api_search("ev tax credits", n, b)]
    /\ UNCHANGED <<mode, SessionVars>>

CallExtract ==
    /\ Idle
    /\ \E u \in {UrlA, UrlC} : \E f \in FetchOutcomes :
         call' = [fn |-> "extract_content", url |-> u, fetch |-> f,
                  ret |-> extract_content(u, f)]
    /\ UNCHANGED <<mode, SessionVars>>

CallSearchAndExtract ==
    /\ Idle
    /\ \E v \in Variants : \E llm \in {LlmReply(" ev credit "), LlmNoChoices} :
       \E b \in Backends(v) : \E fs \in RunFetches :
         call' = [fn |-> "search_and_extract", variant |-> v,
                  user_query |-> "ev tax credits", llm |-> llm, backend |-> b,
                  fetches |-> fs,
                  ret |-> search_and_extract(v, "ev tax credits", llm, b, fs)]
    /\ UNCHANGED <<mode, SessionVars>>

CallCheckUrl ==
    /\ Idle
    /\ \E u \in {UrlA, UrlB} : \E p \in ProbeOutcomes :
         call' = [fn |-> "check_url_accessibility", url |-> u, probe |-> p,
                  ret |-> check_url_accessibility(u, p)]
    /\ UNCHANGED <<mode, SessionVars>>

CallDistill ==
    /\ Idle
    /\ \E u \in {UrlA, UrlB} : \E f \in RunFetchOutcomes : \E q \in Queries :
       \E llm \in AnalysisLlmOutcomes \cup {LlmNullContent} :
       \E article \in {Article(u, PublicationDate(u), extract_content(u, f).value)} :
         call' = [fn |-> "distill_individual_article", article |-> article,
                  user_query |-> q, llm |-> llm,
                  ret |-> distill_individual_article(article, q, llm)]
    /\ UNCHANGED <<mode, SessionVars>>

\* the longest text clean_text is called with directly
MaxTextLen == 4

\* the characters of those texts: a letter, a space, a tab, a newline
TextAlphabet == {"a", " ", "\t", "\n"}

\* every text of at most n characters
RECURSIVE TextsUpTo(_)
TextsUpTo(n) ==
    IF n = 0 THEN {""}
    ELSE LET shorter == TextsUpTo(n - 1)
         IN  shorter \cup {t \o c : t \in shorter, c \in TextAlphabet}

CallCleanText ==
    /\ Idle
    /\ \E text \in TextsUpTo(MaxTextLen) :
         call' = [fn |-> "clean_text", text |-> text, ret |-> Ret(clean_text(text))]
    /\ UNCHANGED <<mode, SessionVars>>

-----------------------------------------------------------------------------
(* The two for loops, one iteration at a time *)

\* a call that is a loop in progress or finished
IsLoop(c) == c.fn \in {"extract_loop", "distill_loop"}

LoopRunning == mode = "unit" /\ IsLoop(call) /\ ~call.done
LoopDone == mode = "unit" /\ IsLoop(call) /\ call.done

\* an index that stays on an item whose call failed
NextIndexRetryFailed(i, content) == IF startswith(content, "Error") THEN i ELSE i + 1

\* for i, url in enumerate(urls) / for i, article in enumerate(filtered_content):
\* the next item, whatever the body did with this one
NextIndex(i, content) == i + 1

\* search_and_extract from "if not urls" on: items are the urls the search
\* returned, contents what extract_content is going to return for each of
\* them, results the list the loop appends to, value what is returned
ExtractLoopCall(urls, contents) ==
    [fn |-> "extract_loop", items |-> urls, contents |-> contents, i |-> 1,
     results |-> <<>>, iterations |-> 0, sleeps |-> 0, done |-> urls = <<>>,
     value |-> IF urls = <<>> THEN <<NoResultsSignal>> ELSE <<>>]

\* extract_content(url) for every url, fetches[i] being the fetch of the i-th
ContentsOf(urls, fetches) ==
    [i \in 1..Len(urls) |-> extract_content(urls[i], fetches[i]).value]

\* the articles a distillation loop is given
LoopArticles ==
    {[i \in 1..Len(r) |-> Article(r[i], PublicationDate(r[i]), "EV credit up")] :
        r \in Rankings}

\* the Distill Articles loop from "st.session_state.distilled_articles = []" on
DistillLoopCall(filtered_content) ==
    [fn |-> "distill_loop", items |-> filtered_content, contents |-> <<>>, i |-> 1,
     results |-> <<>>, iterations |-> 0, sleeps |-> 0, done |-> FALSE, value |-> <<>>]

ExtractLoopStart ==
    /\ Idle
    /\ \E urls \in Rankings : \E fetches \in [1..Len(urls) -> RunFetchOutcomes] :
         call' = ExtractLoopCall(urls, ContentsOf(urls, fetches))
    /\ UNCHANGED <<mode, SessionVars>>

\* one iteration: extract_content, append, sleep unless the URL is the last
ExtractLoopIterate ==
    /\ LoopRunning
    /\ call.fn = "extract_loop"
    /\ call.i <= Len(call.items)
    /\ call' = [call EXCEPT
                  !.results = Append(@, Document(call.items[call.i],
                                                 call.contents[call.i])),
                  !.iterations = @ + 1,
                  !.sleeps = IF call.i < Len(call.items) THEN @ + 1 ELSE @,
                  !.i = NextIndex(call.i, call.contents[call.i])]
    /\ UNCHANGED <<mode, SessionVars>>

\* return results
ExtractLoopReturn ==
    /\ LoopRunning
    /\ call.fn = "extract_loop"
    /\ call.i > Len(call.items)
    /\ call' = [call EXCEPT !.done = TRUE, !.value = call.results]
    /\ UNCHANGED <<mode, SessionVars>>

DistillLoopStart ==
    /\ Idle
    /\ \E filtered_content \in LoopArticles : call' = DistillLoopCall(filtered_content)
    /\ UNCHANGED <<mode, SessionVars>>

\* one iteration: distill_individual_article and append
DistillLoopIterate ==
    /\ LoopRunning
    /\ call.fn = "distill_loop"
    /\ call.i <= Len(call.items)
    /\ \E llm \in AnalysisLlmOutcomes :
       \E d \in {distill_individual_article(call.items[call.i], "ev tax credits", llm)} :
         /\ ~d.raised
         /\ call' = [call EXCEPT
                       !.results = Append(@, d.value),
                       !.iterations = @ + 1,
                       !.i = NextIndex(call.i, d.value.distilled_content)]
    /\ UNCHANGED <<mode, SessionVars>>

\* the loop is over: the success message of the run
DistillLoopFinish ==
    /\ LoopRunning
    /\ call.fn = "distill_loop"
    /\ call.i > Len(call.items)
    /\ call' = [call EXCEPT !.done = TRUE, !.value = call.results]
    /\ UNCHANGED <<mode, SessionVars>>

\* the harness is ready for its next call
CallReturn ==
    /\ mode = "unit"
    /\ call # NoCall
    /\ ~LoopRunning
    /\ call' = NoCall
    /\ UNCHANGED <<mode, SessionVars>>

NextUnit ==
    \/ CallEnhance
    \/ CallSearch
    \/ CallExtract
    \/ CallSearchAndExtract
    \/ CallCheckUrl
    \/ CallDistill
    \/ CallCleanText
    \/ ExtractLoopStart
    \/ ExtractLoopIterate
    \/ ExtractLoopReturn
    \/ DistillLoopStart
    \/ DistillLoopIterate
    \/ DistillLoopFinish
    \/ CallReturn

-----------------------------------------------------------------------------
(* Inputs of a script run of the front ends *)

\* the rankings the backend holds when a front end searches
RunRankings == {[i \in 1..k |-> HitAt(i)] : k \in 0..MaxRanked}
RunBackends == {Backend("ok", r) : r \in RunRankings} \cup {Backend("error", <<>>)}

\* the non-empty queries typed into the text box
RunQueries == {"ev tax credits"}

\* what the query box can hold when Search is clicked
UserQueries == {""} \cup RunQueries

\* the page of a run whose Search button was clicked with user_query in the box
SearchClicked(page, user_query) == [page EXCEPT !.search_query = user_query]

SearchBranchAnyQuery(search_button, user_query) == search_button

\* if search_button and user_query:
SearchBranchTaken(search_button, user_query) == search_button /\ user_query # ""

\* elif search_button and not user_query:
WarningBranchTaken(search_button, user_query) ==
    ~SearchBranchTaken(search_button, user_query) /\ search_button /\ user_query = ""

\* st.warning("Please enter a search query.")
EnterQueryPage == [BlankUi EXCEPT !.msgs = <<Msg("warning", "enter_query", 0, 0)>>]

RunLlmOutcomes == {LlmReply(" ev tax credit 2024 "), LlmApiError("Rate limit exceeded")}

\* the number of URLs the search of a run returns: the fetch and probe
\* outcomes of a run are drawn for these positions only
NumUrls(backend) == Len(SearchUrls("keyless", "", backend).value)

CountOp(events, op) == Len(SelectSeq(events, LAMBDA e : e.op = op))

PipelineCalls(user_query, llm, events) ==
    [NoCalls EXCEPT !.query = user_query,
                    !.llm = [i \in 1..CountOp(events, "enhance") |-> llm],
                    !.enhance = CountOp(events, "enhance"),
                    !.search = CountOp(events, "search"),
                    !.fetch = CountOp(events, "fetch"),
                    !.sleep = CountOp(events, "sleep")]

\* item['url'] for every item, as the loops of the URL tabs evaluate it
AllDocuments(items) == \A i \in 1..Len(items) : IsDocument(items[i])

-----------------------------------------------------------------------------
(* app.py *)

\* the messages of a Search run of app.py, r being what search_and_extract did:
\* st.success comes before the loops over the items, whose item['url'] raises
\* on an item that is a string
AppShown(r) ==
    IF r.raised THEN <<Msg("error", "error_occurred", 0, 0)>>
    ELSE IF r.value = <<>> THEN <<Msg("warning", "no_results", 0, 0)>>
    ELSE <<Msg("success", "found", Len(r.value), 0)>>
           \o (IF AllDocuments(r.value) THEN <<>>
               ELSE <<Msg("error", "error_occurred", 0, 0)>>)

\* one run of main() with the Search button clicked
AppSearch ==
    /\ mode = "app"
    /\ \/ \E q \in UserQueries :
          /\ WarningBranchTaken(TRUE, q)
          /\ ui' = SearchClicked(EnterQueryPage, q)
          /\ calls' = NoCalls
          /\ UNCHANGED fetched
       \/ \E q \in {u \in UserQueries : SearchBranchTaken(TRUE, u)} :
          \E llm \in RunLlmOutcomes :
          \E b \in RunBackends : \E fs \in [1..NumUrls(b) -> RunFetchOutcomes] :
          \E r \in {google_latest_search_and_extract(q, FALSE, llm, b, fs)} :
              /\ ui' = [BlankUi EXCEPT !.msgs = AppShown(r),
                                       !.tabs = ~r.raised /\ AllDocuments(r.value)
                                                  /\ r.value # <<>>,
                                       !.search_query = q]
              /\ calls' = PipelineCalls(q, llm, r.events)
              /\ fetched' = r.value
    /\ UNCHANGED <<mode, call, search_results, session_user_query, distilled_articles,
                   distilled_src, probes>>

\* a run with no button clicked: app.py keeps nothing and shows nothing
AppRerun ==
    /\ mode = "app"
    /\ ui' = BlankUi
    /\ calls' = NoCalls
    /\ UNCHANGED <<mode, call, search_results, session_user_query, distilled_articles,
                   distilled_src, fetched, probes>>

-----------------------------------------------------------------------------
(* app3.py *)

App3FetchOutcomes == {FetchPage(ShortPage), Forbidden403}

App3ProbeOutcomes == {ProbeResponse(200), ProbeResponse(403), ProbeExc(ReadTimeout)}

\* the page of the branch that shows stored results
App3ResultsUi(results) ==
    [BlankUi EXCEPT !.msgs = <<Msg("success", "found_accessible", Len(results), 0)>>,
                    !.tabs = TRUE]

\* st.info("Filtered out n URLs ..."), shown when the filter removed any
FilteredOutMsg(all_results, results) ==
    IF Len(results) < Len(all_results)
    THEN <<Msg("info", "filtered_out", Len(all_results) - Len(results), 0)>>
    ELSE <<>>

\* the page of a Search run whose filter returned results
App3SearchUi(all_results, results) ==
    IF results # <<>>
    THEN [App3ResultsUi(results) EXCEPT !.msgs = FilteredOutMsg(all_results, results) \o @]
    ELSE [BlankUi EXCEPT !.msgs = FilteredOutMsg(all_results, results)
                                    \o <<Msg("warning", "no_accessible", 0, 0)>>]

\* one run of main() with the Search button clicked
App3Search ==
    /\ mode = "app3"
    /\ \/ \E q \in UserQueries :
          /\ WarningBranchTaken(TRUE, q)
          /\ ui' = SearchClicked(EnterQueryPage, q)
          /\ calls' = NoCalls
          /\ UNCHANGED <<search_results, session_user_query, fetched, probes>>
       \/ \E q \in {u \in UserQueries : SearchBranchTaken(TRUE, u)} :
          \E llm \in RunLlmOutcomes :
          \E b \in RunBackends : \E fs \in [1..NumUrls(b) -> App3FetchOutcomes] :
          \E ps \in [1..NumUrls(b) -> App3ProbeOutcomes] :
         \E r \in {google_latest_search_and_extract(q, FALSE, llm, b, fs)} :
         \E f \in {filter_accessible_content(r.value, ps)} :
             /\ calls' = [PipelineCalls(q, llm, r.events) EXCEPT !.probe = f.nprobes]
             /\ fetched' = r.value
             /\ IF r.raised \/ f.raised
                THEN /\ ui' = [BlankUi EXCEPT
                                 !.msgs = <<Msg("error", "error_occurred", 0, 0)>>,
                                 !.search_query = q]
                     /\ probes' = <<>>
                     /\ UNCHANGED <<search_results, session_user_query>>
                ELSE /\ search_results' = Stored(f.value)
                     /\ session_user_query' = q
                     /\ probes' = ps
                     /\ ui' = SearchClicked(App3SearchUi(r.value, f.value), q)
    /\ UNCHANGED <<mode, call, distilled_articles, distilled_src>>

\* a run with no button clicked: the stored results, when there are any
App3Rerun ==
    /\ mode = "app3"
    /\ ui' = IF search_results.set /\ search_results.items # <<>>
             THEN App3ResultsUi(search_results.items)
             ELSE BlankUi
    /\ calls' = NoCalls
    /\ UNCHANGED <<mode, call, search_results, session_user_query, distilled_articles,
                   distilled_src, fetched, probes>>

\* a run with the Generate Analysis button clicked; the button was on the
\* page of the run before
App3GenerateAnalysis ==
    /\ mode = "app3"
    /\ ui.tabs
    /\ search_results.set /\ search_results.items # <<>>
    /\ \E llm \in SynthesisLlmOutcomes :
       \E report \in {analyze_with_chatgpt(search_results.items, session_user_query, llm)} :
         /\ ui' = IF report.raised
                  THEN [BlankUi EXCEPT
                          !.msgs = <<Msg("success", "found_accessible",
                                         Len(search_results.items), 0),
                                     Msg("exception", "uncaught", 0, 0)>>,
                          !.synth_input = search_results.items]
                  ELSE [App3ResultsUi(search_results.items) EXCEPT
                          !.synth_input = search_results.items,
                          !.report = report.value]
         /\ calls' = [NoCalls EXCEPT !.synth = 1, !.llm = <<llm>>]
    /\ UNCHANGED <<mode, call, search_results, session_user_query, distilled_articles,
                   distilled_src, fetched, probes>>

-----------------------------------------------------------------------------
(* dl.py *)

\* the fetch outcomes of a Search of dl.py: a page, a 403 with the reason
\* phrase "Forbidden", a 403 of a server that words it "FORBIDDEN", a timeout
DlFetchOutcomes ==
    {FetchPage(<<Element("p", "EV credit up")>>), Forbidden403,
     FetchHttp("403", "FORBIDDEN"), FetchExc(ReadTimeout)}

\* The enhancement outcome of a Search of dl.py.  Whether the enhancement
\* fails or not changes only the query string sent to the search, whose
\* answer is drawn from RunBackends in either case, so one outcome gives
\* every state the session can reach.
DlEnhanceOutcomes == {LlmReply(" ev tax credit 2024 ")}

DlLlmOutcomes == {LlmReply("- Credit rises to $7,500"), LlmApiError("Rate limit exceeded")}

\* a test of the attribute alone, true of an empty list as well
HasDistilledAttr(distilled) == distilled.set

\* hasattr(st.session_state, 'distilled_articles') and st.session_state.distilled_articles
HasDistilled(distilled) == distilled.set /\ distilled.items # <<>>

\* The page both branches draw for the results: the count line, the tabs and,
\* in the report tab, the Generate Report button or the request to distill
\* first.  before: the messages the run showed ahead of the report tab.
DlResultsUi(results, accessible, before, distilled) ==
    [BlankUi EXCEPT
       !.msgs = <<Msg("success", "found", Len(results), Len(accessible))>> \o before
                  \o (IF HasDistilled(distilled) THEN <<>>
                      ELSE <<Msg("warning", "distill_first", 0, 0)>>),
       !.tabs = TRUE,
       !.report_button = HasDistilled(distilled)]

\* one run of main() with the Search button clicked: the results are stored
\* before they are filtered for the count; distilled_articles is not touched
DlSearch ==
    /\ mode = "dl"
    /\ \/ \E q \in UserQueries :
          /\ WarningBranchTaken(TRUE, q)
          /\ ui' = SearchClicked(EnterQueryPage, q)
          /\ calls' = NoCalls
          /\ UNCHANGED <<search_results, fetched>>
       \/ \E q \in {u \in UserQueries : SearchBranchTaken(TRUE, u)} :
          \E llm \in DlEnhanceOutcomes :
          \E b \in RunBackends : \E fs \in [1..NumUrls(b) -> DlFetchOutcomes] :
         \E r \in {google_latest_search_and_extract(q, FALSE, llm, b, fs)} :
         \E accessible \in {FilterForbidden(r.value)} :
             /\ calls' = PipelineCalls(q, llm, r.events)
             /\ fetched' = r.value
             /\ search_results' = IF r.raised THEN search_results ELSE Stored(r.value)
             /\ ui' = SearchClicked(
                      IF r.raised \/ accessible.raised
                      THEN [BlankUi EXCEPT
                              !.msgs = <<Msg("error", "error_occurred", 0, 0)>>]
                      ELSE IF r.value = <<>>
                      THEN [BlankUi EXCEPT !.msgs = <<Msg("warning", "no_results", 0, 0)>>]
                      ELSE DlResultsUi(r.value, accessible.value, <<>>, distilled_articles),
                      q)
    /\ UNCHANGED <<mode, call, session_user_query, distilled_articles, distilled_src,
                   probes>>

\* the branch for stored results is taken
DlHasResults == search_results.set /\ search_results.items # <<>>

\* a run with no button clicked: the stored results; the comprehension over
\* them is outside any try
DlRerun ==
    /\ mode = "dl"
    /\ \E accessible \in {FilterForbidden(search_results.items)} :
         ui' = IF ~DlHasResults THEN BlankUi
               ELSE IF accessible.raised
               THEN [BlankUi EXCEPT !.msgs = <<Msg("exception", "uncaught", 0, 0)>>]
               ELSE DlResultsUi(search_results.items, accessible.value, <<>>,
                                distilled_articles)
    /\ calls' = NoCalls
    /\ UNCHANGED <<mode, call, search_results, session_user_query, distilled_articles,
                   distilled_src, fetched, probes>>

\* a run that appends its records to the list the session already holds
DistilledExtended(before, records) == Stored(before.items \o records)

\* st.session_state.distilled_articles = [] and one append per record: the
\* list after the loop, before being what the session held
DistilledAfter(before, records) == Stored(records)

\* a run with the Distill Articles button clicked; the button was on the page
\* of the run before.  The list is emptied, then one record is appended per
\* filtered article.
DlDistill ==
    /\ mode = "dl"
    /\ ui.tabs
    /\ DlHasResults
    /\ \E q \in {""} \cup RunQueries :
       \E filtered \in {FilterForbidden(search_results.items)} :
         /\ ~filtered.raised
         /\ \E llms \in [1..Len(filtered.value) -> DlLlmOutcomes] :
            \E loop \in {DistillLoop(filtered.value, q, llms, 1)} :
              /\ ~loop.raised
              /\ distilled_articles' = DistilledAfter(distilled_articles, loop.value)
              /\ distilled_src' = filtered.value
              /\ calls' = [NoCalls EXCEPT !.distill = loop.ncalls,
                                          !.llm = [i \in 1..loop.ncalls |-> llms[i]]]
              /\ ui' = DlResultsUi(search_results.items, filtered.value,
                                   <<Msg("success", "distilled",
                                         Len(DistilledAfter(distilled_articles,
                                                            loop.value).items), 0)>>,
                                   DistilledAfter(distilled_articles, loop.value))
    /\ UNCHANGED <<mode, call, search_results, session_user_query, fetched, probes>>

\* a run with the Generate Report button clicked; the button was on the page
\* of the run before
DlGenerateReport ==
    /\ mode = "dl"
    /\ ui.report_button
    /\ DlHasResults
    /\ HasDistilled(distilled_articles)
    /\ \E llm \in SynthesisLlmOutcomes :
       \E accessible \in {FilterForbidden(search_results.items)} :
       \E report \in {generate_report_from_distilled_content(
                          distilled_articles.items, "ev tax credits", llm)} :
         /\ ~accessible.raised /\ ~report.raised
         /\ ui' = [DlResultsUi(search_results.items, accessible.value, <<>>,
                               distilled_articles)
                     EXCEPT !.synth_input = distilled_articles.items,
                            !.report = report.value]
         /\ calls' = [NoCalls EXCEPT !.synth = 1, !.llm = <<llm>>]
    /\ UNCHANGED <<mode, call, search_results, session_user_query, distilled_articles,
                   distilled_src, fetched, probes>>

NextApp == AppSearch \/ AppRerun
NextApp3 == App3Search \/ App3Rerun \/ App3GenerateAnalysis

NextDl == DlSearch \/ DlRerun \/ DlDistill \/ DlGenerateReport

Next == NextUnit \/ NextApp \/ NextApp3 \/ NextDl
Spec == Init /\ [][Next]_vars

\* the programs one at a time
SpecUnit == InitMode("unit") /\ [][NextUnit]_vars

\* The calls with the loops scheduled: the interpreter goes on to the next
\* statement, and every external call of an iteration returns or fails within
\* its timeout, so an iteration or a return that can be taken is taken.
SpecUnitFair ==
    /\ SpecUnit
    /\ WF_vars(ExtractLoopIterate) /\ WF_vars(ExtractLoopReturn)
    /\ WF_vars(DistillLoopIterate) /\ WF_vars(DistillLoopFinish)
SpecApp3 == InitMode("app3") /\ [][NextApp3]_vars
SpecDl == InitMode("dl") /\ [][NextDl]_vars

-----------------------------------------------------------------------------
(* Properties *)

\* the language-model step of a call did not produce a text
LlmFails(llm) == llm.kind # "reply"

\* C1: whenever the language-model call of enhance_query_with_llm fails
\* (the client cannot be built, the API raises, the reply has no choice or
\* no content), the function returns the raw query itself, character for
\* character: not raised, not null, not empty for a non-empty query; in the
\* keyless and in the key-based variant.
EnhanceFailureReturnsRawQuery ==
    (call.fn = "enhance_query_with_llm" /\ LlmFails(call.llm)) =>
        /\ ~call.ret.raised
        /\ call.ret.value = call.user_query
        /\ call.ret.value # None
        /\ (call.user_query # "" => call.ret.value # "")

\* a failed enhancement of a query padded with whitespace, key-based variant
EnhanceFailureSeen ==
    /\ call.fn = "enhance_query_with_llm"
    /\ call.variant = "keyed"
    /\ call.llm = LlmInitError
    /\ call.user_query = "  tesla stock \n"
    /\ call.ret = Ret("  tesla stock \n")

\* the cleaned text of the page a successful fetch parsed
CleanedText(fetch) == clean_text(get_text(fetch.page))

\* C2 as stated: every document of extract_content, of a successful or of a
\* failed fetch, has len(content) <= 10000 + len(marker), and its content
\* ends with the truncation marker if and only if the cleaned text before
\* the cap was longer than 10,000 characters.
ContentBoundedAndMarkedIffLong ==
    call.fn = "extract_content" =>
        /\ Len(call.ret.value) <= ContentCap + Len(TruncationMarker)
        /\ endswith(call.ret.value, TruncationMarker)
             <=> (call.fetch.kind = "page" /\ Len(CleanedText(call.fetch)) > ContentCap)

\* C2 as amended: the content of a successfully fetched document is at most
\* 10000 + len(marker) long; it is the first 10,000 characters of the cleaned
\* text followed by the marker exactly when the cleaned text is longer than
\* 10,000 characters, and the cleaned text unchanged otherwise (also when
\* that text itself ends with the marker's words).  The error message of a
\* failed fetch is stored whole, whatever its length.
FetchedContentCapped ==
    call.fn = "extract_content" =>
        /\ ~call.ret.raised
        /\ IF call.fetch.kind = "page"
           THEN /\ Len(call.ret.value) <= ContentCap + Len(TruncationMarker)
                /\ Len(call.ret.value) > ContentCap
                     <=> Len(CleanedText(call.fetch)) > ContentCap
                /\ call.ret.value =
                     IF Len(CleanedText(call.fetch)) > ContentCap
                     THEN SubSeq(CleanedText(call.fetch), 1, ContentCap)
                            \o TruncationMarker
                     ELSE CleanedText(call.fetch)
           ELSE /\ startswith(call.ret.value, "Error")
                /\ endswith(call.ret.value, " for " \o call.url)

\* a page of 15,000 cleaned characters was cut to the cap plus the marker
LongPageTruncated ==
    /\ call.fn = "extract_content"
    /\ call.fetch.kind = "page"
    /\ Len(CleanedText(call.fetch)) = 15000
    /\ Len(call.ret.value) = ContentCap + Len(TruncationMarker)
    /\ endswith(call.ret.value, TruncationMarker)

\* the verdict of the HEAD probe on the i-th document of the last search
Denied(i) == ~check_url_accessibility(fetched[i].url, probes[i]).value

Urls(items) == [i \in 1..Len(items) |-> items[i].url]

IsFetchErrorContent(content) ==
    \/ startswith(content, "Error: Request timed out for ")
    \/ startswith(content, "Error: Connection error for ")
    \/ startswith(content, "Error: HTTP error ")
    \/ startswith(content, "Error: Request exception ")
    \/ startswith(content, "Error extracting content: ")

\* C4: a document is passed to distill_individual_article only if its fetch
\* status is Ok (its content is cleaned text and none of the fetch-error
\* messages) and it is not flagged Denied.
OnlyOkAccessibleDistilled ==
    mode = "dl" =>
        \A i \in 1..Len(distilled_src) :
            /\ ~IsFetchErrorContent(distilled_src[i].content)
            /\ ~IsForbiddenContent(distilled_src[i])

\* C5: in every state of a session of dl.py,
\* count(distilled) <= count(accessible) <= count(fetched) <= max_results,
\* distilled being the stored distilled list, fetched the stored search
\* results and accessible those of them the 403 filter keeps.
DlCountsOrdered ==
    (mode = "dl" /\ ~FilterForbidden(search_results.items).raised) =>
        /\ Len(distilled_articles.items) <= Len(FilterForbidden(search_results.items).value)
        /\ Len(FilterForbidden(search_results.items).value) <= Len(search_results.items)
        /\ Len(search_results.items) <= DefaultNumResults

\* the documents among the items of a result list
Documents(items) == SelectSeq(items, IsDocument)

\* C6: when the search yields no URL, search_and_extract returns no document
\* and the "no results" signal, an item that is not a document; it fetches
\* nothing and sleeps for nothing, and the run of app3.py that called it
\* issues no probe and no language-model call.
NoUrlsNoDownstreamStage ==
    /\ (call.fn = "search_and_extract"
          /\ SearchUrls(call.variant, "", call.backend).value = <<>>) =>
            /\ ~call.ret.raised
            /\ Documents(call.ret.value) = <<>>
            /\ call.ret.value = <<NoResultsSignal>>
            /\ ~IsDocument(NoResultsSignal)
            /\ CountOp(call.ret.events, "fetch") = 0
            /\ CountOp(call.ret.events, "sleep") = 0
    /\ (mode = "app3" /\ calls.search = 1 /\ Documents(fetched) = <<>>) =>
            /\ calls.fetch = 0 /\ calls.sleep = 0 /\ calls.probe = 0
            /\ calls.distill = 0 /\ calls.synth = 0
            /\ ui.synth_input = <<>>

\* a Search run of app3.py whose search found no URL: the signal came back
\* and nothing was probed
NoUrlsRunSeen ==
    /\ mode = "app3"
    /\ calls.search = 1
    /\ fetched = <<NoResultsSignal>>
    /\ calls.probe = 0
    /\ ui.tabs = FALSE

OneRecordPerUrl ==
    call.fn = "search_and_extract" =>
        /\ ~call.ret.raised
        /\ Urls(Documents(call.ret.value)) = SearchUrls(call.variant, "", call.backend).value

\* the enhancement failed, the first fetch timed out, and both URLs have
\* their record
FailedFetchKeptItsRecord ==
    /\ call.fn = "search_and_extract"
    /\ call.llm = LlmNoChoices
    /\ call.fetches[1] = FetchExc(ReadTimeout)
    /\ call.fetches[2] = FetchPage(ShortPage)
    /\ Len(call.ret.value) = 2
    /\ call.ret.value[1] = Document(UrlA, "Error: Request timed out for " \o UrlA)
    /\ ~IsFetchErrorContent(call.ret.value[2].content)

\* C9: check_url_accessibility returns True for a response of any status but
\* 403 (404 and 500 included), False for 403 and for an exception of the
\* probe, and never raises; the verdict is a function of the probe alone.
VerdictIsNot403 ==
    call.fn = "check_url_accessibility" =>
        /\ ~call.ret.raised
        /\ call.ret.value = (call.probe.kind = "response" /\ call.probe.status # 403)

\* a probe answered 500 and the URL counts as accessible
ServerErrorAccessible ==
    /\ call.fn = "check_url_accessibility"
    /\ call.probe = ProbeResponse(500)
    /\ call.ret = Ret(TRUE)

\* C10: when the completion call of a distillation raises,
\* distill_individual_article returns the record of that document with
\* "Error in distillation:" in front of the error text; the Distill run of
\* dl.py appends that record like any other and goes on, so that the stored
\* list has one record per document passed, in order.
DistillFailureRecorded ==
    /\ (call.fn = "distill_individual_article" /\ CompletionContent(call.llm).raised) =>
            /\ ~call.ret.raised
            /\ call.ret.value.url = call.article.url
            /\ startswith(call.ret.value.distilled_content, "Error in distillation:")
    /\ mode = "dl" => Urls(distilled_articles.items) = Urls(distilled_src)

\* dl.py: the first of two distillations failed, the second did not, and
\* both records are stored
FailedDistillationStored ==
    /\ mode = "dl"
    /\ Len(distilled_articles.items) = 2
    /\ startswith(distilled_articles.items[1].distilled_content, "Error in distillation:")
    /\ ~startswith(distilled_articles.items[2].distilled_content, "Error in distillation:")

\* C11: every synthesis call returns a report body that is neither absent
\* nor empty: the model's text when the call succeeds, an explanatory error
\* string when it fails; the run that made the call ends without an
\* exception.
ReportBodyNeverEmpty ==
    calls.synth = 1 =>
        /\ ui.report # None
        /\ ui.report # ""
        /\ \A i \in 1..Len(ui.msgs) : ui.msgs[i].kind # "exception"

\* the fetches and sleeps among the events of a pipeline run, in order
IsLoopEvent(e) == e.op \in {"fetch", "sleep"}
LoopEvents(events) == SelectSeq(events, IsLoopEvent)

\* ev holds n fetches, a sleep after each fetch but the last, and no other sleep
SleepsBetweenFetches(ev, n) ==
    /\ CountOp(ev, "fetch") = n
    /\ CountOp(ev, "sleep") = (IF n = 0 THEN 0 ELSE n - 1)
    /\ \A j \in 1..Len(ev) :
          ev[j].op = "sleep" =>
             /\ 1 < j /\ j < Len(ev)
             /\ ev[j - 1].op = "fetch" /\ ev[j + 1].op = "fetch"
    /\ \A j \in 1..(Len(ev) - 1) : ev[j].op = "fetch" => ev[j + 1].op = "sleep"

\* C12: over the N URLs of a run the loop of search_and_extract sleeps
\* exactly max(0, N-1) times: once after each extract_content but the last,
\* so always between two fetches and never after the last one (not at all
\* for N = 1 or N = 0).
DelayOnlyBetweenFetches ==
    call.fn = "search_and_extract" =>
        SleepsBetweenFetches(LoopEvents(call.ret.events),
                             Len(SearchUrls(call.variant, "", call.backend).value))

\* a run over two URLs: fetch, sleep, fetch
TwoFetchesOneSleep ==
    /\ call.fn = "search_and_extract"
    /\ call.variant = "keyed"
    /\ LoopEvents(call.ret.events)
         = <<Event("fetch", UrlA), Event("sleep", "1"), Event("fetch", UrlB)>>

\* the URLs of the fetches among the events of a pipeline run, in order
IsFetchEvent(e) == e.op = "fetch"
FetchedUrls(events) == [j \in 1..CountOp(events, "fetch") |->
                           SelectSeq(events, IsFetchEvent)[j].arg]

\* d is a document of the last search that its probe did not deny
NotDeniedDocument(d) == \E i \in 1..Len(fetched) : fetched[i] = d /\ ~Denied(i)

\* C13: no stage reorders.  search_and_extract fetches the URLs one after the
\* other in the order the search returned them and records the documents in
\* that order; filter_accessible_content keeps the order of its input; the
\* Distill run of dl.py distils the filtered documents in their order and
\* stores the records in that order.
OrderPreserved ==
    /\ call.fn = "search_and_extract" =>
         /\ FetchedUrls(call.ret.events) = SearchUrls(call.variant, "", call.backend).value
         /\ Urls(Documents(call.ret.value)) = FetchedUrls(call.ret.events)
    /\ (mode = "app3" /\ probes # <<>>) =>
         search_results.items = SelectSeq(fetched, NotDeniedDocument)
    /\ (mode = "dl" /\ calls.distill > 0) =>
         /\ distilled_src = FilterForbidden(search_results.items).value
         /\ Urls(distilled_articles.items) = Urls(distilled_src)

\* the backend ranked the second site first, and the documents come in the
\* backend's order
BackendOrderKept ==
    /\ call.fn = "search_and_extract"
    /\ call.backend.ranked = <<UrlB, UrlA>>
    /\ FetchedUrls(call.ret.events) = <<UrlB, UrlA>>
    /\ Urls(call.ret.value) = <<UrlB, UrlA>>

\* the page whose only text is n times the letter x
PageOfLength(n) == <<Element("p", Repeat("x", n))>>

\* C14: a cleaned text longer than 10,000 characters is stored as its first
\* 10,000 characters followed by "... [content truncated]" (15,000 letters
\* give 10,000 letters and the marker, 10,001 likewise); a cleaned text of at
\* most 10,000 characters, exactly 10,000 included, is stored unchanged.
LongTextCutShortTextKept ==
    (call.fn = "extract_content" /\ call.fetch.kind = "page") =>
        /\ Len(CleanedText(call.fetch)) > ContentCap =>
             /\ SubSeq(call.ret.value, 1, ContentCap)
                  = SubSeq(CleanedText(call.fetch), 1, ContentCap)
             /\ SubSeq(call.ret.value, ContentCap + 1, Len(call.ret.value))
                  = "... [content truncated]"
        /\ Len(CleanedText(call.fetch)) <= ContentCap =>
             call.ret.value = CleanedText(call.fetch)
        /\ call.fetch.page \in {PageOfLength(15000), PageOfLength(10001)} =>
             call.ret.value = Repeat("x", 10000) \o "... [content truncated]"
        /\ call.fetch.page = PageOfLength(10000) => call.ret.value = Repeat("x", 10000)

\* a page of exactly 10,000 cleaned characters was stored unchanged
TextAtCapKept ==
    /\ call.fn = "extract_content"
    /\ call.fetch.kind = "page"
    /\ Len(CleanedText(call.fetch)) = ContentCap
    /\ call.ret.value = CleanedText(call.fetch)

\* the message prefixes of extract_content with the kind of failure each
\* stands for; the generic kind has two
FetchErrorPrefixes ==
    {[kind |-> "timeout", prefix |-> "Error: Request timed out for "],
     [kind |-> "connection", prefix |-> "Error: Connection error for "],
     [kind |-> "http", prefix |-> "Error: HTTP error "],
     [kind |-> "generic", prefix |-> "Error: Request exception "],
     [kind |-> "generic", prefix |-> "Error extracting content: "]}

\* the error prefixes and the signal of the other stages
OtherStagePrefixes ==
    {DistillErrorPrefix, "Error in report generation: ", "Error in ChatGPT analysis: ",
     NoResultsSignal.str}

\* the kinds whose prefix the content starts with
KindsOf(content) == {p.kind : p \in {q \in FetchErrorPrefixes : startswith(content, q.prefix)}}

\* the kind a fetch outcome belongs to
KindOfFailure(fetch) ==
    IF fetch.kind = "http" THEN "http"
    ELSE IF fetch.kind = "parse_error" THEN "generic"
    ELSE IF fetch.exc \in {ReadTimeout, ConnectTimeout} THEN "timeout"
    ELSE IF fetch.exc = ConnectionErrorExc THEN "connection"
    ELSE "generic"

\* C15: every failed fetch is stored as a message of exactly one kind among
\* timeout, connection failure, HTTP status error (the status code in the
\* message) and generic request or parsing failure; the prefixes of
\* different kinds and of the other stages do not begin with one another;
\* a connect timeout, which is a timeout and a connection error, is always
\* a timeout.
FailureClassifiedOnce ==
    /\ (call.fn = "extract_content" /\ call.fetch.kind # "page") =>
         /\ ~call.ret.raised
         /\ KindsOf(call.ret.value) = {KindOfFailure(call.fetch)}
         /\ \A q \in OtherStagePrefixes : ~startswith(call.ret.value, q)
         /\ call.fetch.kind = "http" =>
              startswith(call.ret.value, "Error: HTTP error " \o call.fetch.status \o " ")
         /\ call.fetch.exc = ConnectTimeout =>
              call.ret.value = "Error: Request timed out for " \o call.url
    /\ \A p \in FetchErrorPrefixes :
         /\ \A q \in FetchErrorPrefixes :
              (p.kind # q.kind) => ~startswith(p.prefix, q.prefix)
         /\ \A q \in OtherStagePrefixes :
              ~startswith(p.prefix, q) /\ ~startswith(q, p.prefix)

\* a connect timeout was stored as a timeout
ConnectTimeoutIsTimeout ==
    /\ call.fn = "extract_content"
    /\ call.fetch = FetchExc(ConnectTimeout)
    /\ KindsOf(call.ret.value) = {"timeout"}

\* the fetch of the document was answered with HTTP 403
Is403Document(d) == startswith(d.content, "Error: HTTP error 403 ")

\* the fetch of the document gave a text
IsOkDocument(d) == ~IsFetchErrorContent(d.content)

SuccessfulDocuments(results) == SelectSeq(results, IsOkDocument)

\* every fetch of the results either succeeded or was answered with 403
OkOr403Only(results) ==
    \A i \in 1..Len(results) :
        IsDocument(results[i]) /\ (IsOkDocument(results[i]) \/ Is403Document(results[i]))

\* C16: when the results of a Search of dl.py are n documents of which k are
\* 403 messages and n-k are fetched texts, the Search run reports n total
\* and n-k accessible, a Distill run on them distils exactly the n-k fetched
\* documents, and the report generated from that distillation is
\* synthesized from the records of those n-k sources only.
ForbiddenLeftOutOfCounts ==
    (mode = "dl" /\ search_results.set /\ OkOr403Only(search_results.items)) =>
        /\ calls.search = 1 =>
             ui.msgs[1] = Msg("success", "found", Len(search_results.items),
                              Len(SuccessfulDocuments(search_results.items)))
        /\ calls.distill > 0 =>
             /\ distilled_src = SuccessfulDocuments(search_results.items)
             /\ calls.distill = Len(SuccessfulDocuments(search_results.items))
             /\ Len(distilled_articles.items) = Len(SuccessfulDocuments(search_results.items))
        /\ (calls.synth = 1 /\ distilled_src = SuccessfulDocuments(search_results.items)) =>
             Urls(ui.synth_input) = Urls(SuccessfulDocuments(search_results.items))

\* the elements of a sequence
Range(seq) == {seq[i] : i \in 1..Len(seq)}

\* C17: a document whose fetch failed or that was denied is terminal: it is
\* never distilled nor handed to the synthesis, and it stays in the results
\* the run stores.  app3.py: of the documents of the last Search, those
\* denied by the probe and those holding a fetch-error message are in the
\* stored results and not in the analysed list.  dl.py: the 403 and other
\* fetch-error documents of the stored results are not among the documents
\* a Distill run on them distils.
FailedDocumentsKeptButExcluded ==
    /\ (mode = "app3" /\ probes # <<>>) =>
         \A i \in 1..Len(fetched) :
            (Denied(i) \/ ~IsOkDocument(fetched[i])) =>
               /\ fetched[i] \in Range(search_results.items)
               /\ fetched[i] \notin Range(ui.synth_input)
    /\ (mode = "dl" /\ calls.distill > 0) =>
         \A i \in 1..Len(search_results.items) :
            ~IsOkDocument(search_results.items[i]) =>
               search_results.items[i] \notin Range(distilled_src)

\* the number of stored search results with the url
DocumentsWithUrl(url) ==
    Cardinality({i \in 1..Len(search_results.items) :
                    IsDocument(search_results.items[i])
                      /\ search_results.items[i].url = url})

\* C18: in every state of a session of dl.py each stored distilled record
\* has the url of exactly one document of the stored search results, and a
\* report is synthesized from such records only: a new Search leaves no
\* record of an earlier search behind.
DistilledTraceToStoredResults ==
    mode = "dl" =>
        /\ \A j \in 1..Len(distilled_articles.items) :
              DocumentsWithUrl(distilled_articles.items[j].url) = 1
        /\ \A j \in 1..Len(ui.synth_input) :
              DocumentsWithUrl(ui.synth_input[j].url) = 1


\* C20: in each app a Search click with an empty query box shows the
\* "Please enter a search query" warning and nothing else, makes no call of
\* search_and_extract, the accessibility probe, the distiller or the
\* synthesizer, and leaves the stored results, the stored query and the stored
\* distillations as they were; and no run passes an empty query to
\* search_and_extract.
EmptyQueryOnlyWarns ==
    [][ /\ ui'.search_query = "" =>
             /\ ui' = [BlankUi EXCEPT !.msgs = <<Msg("warning", "enter_query", 0, 0)>>,
                                      !.search_query = ""]
             /\ calls' = NoCalls
             /\ UNCHANGED <<search_results, session_user_query, distilled_articles>>
        /\ calls'.query # "" ]_vars

\* Search was clicked with an empty box while results and distillations of an
\* earlier run were in the session
EmptyQueryClickKeptResults ==
    /\ mode = "dl"
    /\ ui.search_query = ""
    /\ search_results.set /\ search_results.items # <<>>
    /\ distilled_articles.set /\ distilled_articles.items # <<>>


-----------------------------------------------------------------------------
\* the run on the page is one whose Distill Articles button was clicked
DistillRunShown == \E i \in 1..Len(ui.msgs) : ui.msgs[i].what = "distilled"

\* the record of the j-th filtered document holds what the j-th call gave: the
\* reply's text, or the error text of that call
RecordFromOwnCall(j) ==
    /\ distilled_articles.items[j].url = distilled_src[j].url
    /\ calls.llm[j].kind = "reply" =>
          distilled_articles.items[j].distilled_content = calls.llm[j].text
    /\ calls.llm[j].kind # "reply" =>
          distilled_articles.items[j].distilled_content
             = DistillErrorPrefix \o calls.llm[j].text

\* C21: no language-model call is repeated.  A run that calls
\* search_and_extract makes one enhancement call; a Distill Articles run over
\* M filtered documents makes M distillation calls and stores M records, the
\* j-th holding the outcome of the j-th call whatever the other calls did; a
\* run that produces a report makes one synthesis call; and no run makes a
\* call without an outcome of its own.
NoLlmCallRetried ==
    /\ Len(calls.llm) = calls.enhance + calls.distill + calls.synth
    /\ calls.query # None => calls.enhance = 1
    /\ (mode = "dl" /\ DistillRunShown) =>
          /\ calls.distill = Len(FilterForbidden(search_results.items).value)
          /\ Len(distilled_articles.items) = calls.distill
          /\ distilled_src = FilterForbidden(search_results.items).value
          /\ \A j \in 1..calls.distill : RecordFromOwnCall(j)
    /\ ui.report # None => calls.synth = 1 /\ calls.distill = 0 /\ calls.enhance = 0
    /\ (mode = "unit" /\ call.fn = "search_and_extract") =>
          CountOp(call.ret.events, "enhance") = 1

\* a Distill Articles run over two documents whose first call failed and
\* whose second call replied
FirstDistillationFailedSecondKept ==
    /\ mode = "dl"
    /\ DistillRunShown
    /\ calls.distill = 2
    /\ calls.llm[1].kind = "api_error"
    /\ calls.llm[2].kind = "reply"
    /\ distilled_articles.items[2].distilled_content = "- Credit rises to $7,500"


-----------------------------------------------------------------------------
\* a record whose distilled content is the error text of a failed call
IsErrorRecord(record) == startswith(record.distilled_content, DistillErrorPrefix)

\* the records of the distillations that succeeded
SucceededRecords(records) == SelectSeq(records, LAMBDA record : ~IsErrorRecord(record))

\* C22: the counts a run reports are the counts of the run.  The total found
\* is the number of documents the pipeline returned, the number reported as
\* accessible (filtered out) is the number that pass (fail) the filter, and
\* the number reported as successfully distilled is the number of records
\* whose distillation succeeded, the records holding an error text left out.
ReportedCountsMatchRun ==
    /\ (mode = "dl" /\ ui.search_query # None) =>
          \A i \in 1..Len(ui.msgs) :
             ui.msgs[i].what = "found" =>
                /\ ui.msgs[i].n = Len(Documents(fetched))
                /\ ui.msgs[i].m = Len(FilterForbidden(fetched).value)
    /\ (mode = "app3" /\ ui.search_query # None) =>
          \A i \in 1..Len(ui.msgs) :
             /\ ui.msgs[i].what = "filtered_out" =>
                   ui.msgs[i].n = Len(Documents(fetched)) - Len(search_results.items)
             /\ ui.msgs[i].what = "found_accessible" =>
                   ui.msgs[i].n = Len(search_results.items)
    /\ (mode = "dl" /\ DistillRunShown) =>
          \A i \in 1..Len(ui.msgs) :
             ui.msgs[i].what = "distilled" =>
                ui.msgs[i].n = Len(SucceededRecords(distilled_articles.items))


-----------------------------------------------------------------------------
\* what a backend answered, as the two variants have it in common: an error,
\* or its ordered URLs (none for an answer without items)
BackendOutcome(backend) ==
    [error |-> backend.kind \notin {"ok", "no_items"},
     urls |-> IF backend.kind = "ok" THEN backend.ranked ELSE <<>>]

\* C23: the keyless and the key-based search_and_extract are interchangeable.
\* For the same query and enhancement outcome, backends that answered alike
\* (the same ordered URLs, nothing, or an error) and the same fetch outcomes,
\* either variant returns what the other returns and makes the same calls,
\* fetches and sleeps in the same order.
VariantsInterchangeable ==
    (mode = "unit" /\ call.fn = "search_and_extract") =>
        \A v \in Variants : \A b \in Backends(v) :
            BackendOutcome(b) = BackendOutcome(call.backend) =>
                search_and_extract(v, call.user_query, call.llm, b, call.fetches)
                   = call.ret

\* the key-based variant returned two documents for a ranking the keyless
\* backend can hold as well
KeyedRunReturnedTwoDocuments ==
    /\ mode = "unit"
    /\ call.fn = "search_and_extract"
    /\ call.variant = "keyed"
    /\ call.backend.kind = "ok"
    /\ Len(Documents(call.ret.value)) = 2
    /\ CountOp(call.ret.events, "sleep") = 1


-----------------------------------------------------------------------------
\* what a finished loop did: one iteration per item; the extraction loop
\* returned one document per URL, slept between the fetches only, and returned
\* no document only when there was no URL; the distillation loop stored one
\* record per article
LoopDidOneIterationPerItem ==
    /\ call.iterations = Len(call.items)
    /\ call.fn = "extract_loop" =>
          /\ Len(Documents(call.value)) = Len(call.items)
          /\ Documents(call.value) = <<>> <=> call.items = <<>>
          /\ call.sleeps = (IF call.items = <<>> THEN 0 ELSE Len(call.items) - 1)
    /\ call.fn = "distill_loop" => Len(call.value) = Len(call.items)

\* C24: every run completes.  Whatever the enhancement, the fetches and the
\* distillation calls do, a call of search_and_extract returns without an
\* exception after one fetch per URL; the extraction loop and the
\* distillation loop, once entered, finish, after exactly one iteration per
\* item; and only a search without URLs gives a run without documents.
EveryRunCompletes ==
    /\ [](mode = "unit" /\ call.fn = "search_and_extract" =>
            /\ ~call.ret.raised
            /\ CountOp(call.ret.events, "fetch")
                 = Len(SearchUrls(call.variant, "", call.backend).value)
            /\ Documents(call.ret.value) = <<>>
                 <=> SearchUrls(call.variant, "", call.backend).value = <<>>)
    /\ [](LoopDone => LoopDidOneIterationPerItem)
    /\ (LoopRunning ~> LoopDone)

\* a distillation loop over three articles finished although its first call
\* failed
DistillLoopFinishedAfterFailure ==
    /\ LoopDone
    /\ call.fn = "distill_loop"
    /\ Len(call.items) = 3
    /\ IsErrorRecord(call.value[1])
    /\ ~IsErrorRecord(call.value[3])


-----------------------------------------------------------------------------
\* two whitespace characters next to each other
HasWhitespaceRun(text) ==
    \E i \in 1..(Len(text) - 1) :
       SubSeq(text, i, i) \in Whitespace /\ SubSeq(text, i + 1, i + 1) \in Whitespace

HasNewline(text) == \E i \in 1..Len(text) : SubSeq(text, i, i) = "\n"

\* C25: whatever the text, what clean_text returns holds no newline, neither
\* starts nor ends with whitespace, and holds no two whitespace characters
\* (space, tab, carriage return, newline) in a row.
CleanTextSingleSpaced ==
    (mode = "unit" /\ call.fn = "clean_text") =>
        /\ ~HasNewline(call.ret.value)
        /\ strip(call.ret.value) = call.ret.value
        /\ ~HasWhitespaceRun(call.ret.value)

\* C30: clean_text is idempotent: cleaning what it returned returns it again.
CleanTextIdempotent ==
    (mode = "unit" /\ call.fn = "clean_text") =>
        clean_text(call.ret.value) = call.ret.value

\* a text with a blank line was cleaned to two words
BlankLineCleaned ==
    /\ mode = "unit"
    /\ call.fn = "clean_text"
    /\ call.text = "a\n\na"
    /\ call.ret.value = "a a"


-----------------------------------------------------------------------------
\* the run on the page called the pipeline and its search gave no URL: there
\* was a search and nothing was fetched
NoUrlsRunShown == calls.search = 1 /\ calls.fetch = 0

\* C26: when the search yields no URL, app.py and dl.py end in the "No results
\* found for your query" warning: no success message with a positive count,
\* no tabs drawn over the no-results signal, no "An error occurred" message.
NoUrlsEndsInNoResultsWarning ==
    (mode \in {"app", "dl"} /\ NoUrlsRunShown) =>
        /\ ui.msgs = <<Msg("warning", "no_results", 0, 0)>>
        /\ ~ui.tabs
        /\ \A i \in 1..Len(ui.msgs) :
              /\ ~(ui.msgs[i].kind = "success" /\ ui.msgs[i].n > 0)
              /\ ui.msgs[i].what # "error_occurred"


-----------------------------------------------------------------------------
\* the run on the page asks the user to distill first
DistillFirstShown == \E i \in 1..Len(ui.msgs) : ui.msgs[i].what = "distill_first"

\* C27: the synthesizer is called only on documents.  A run that calls it
\* hands it a list that is not empty: in dl.py the stored distilled list, in
\* app3.py the stored accessible results; and while dl.py holds no distilled
\* record a run makes no synthesis call, draws no Generate Report button and
\* asks the user to distill first.
SynthesisOnlyAfterDocuments ==
    /\ calls.synth > 0 =>
          /\ ui.synth_input # <<>>
          /\ mode = "dl" =>
                /\ distilled_articles.set
                /\ ui.synth_input = distilled_articles.items
          /\ mode = "app3" =>
                /\ search_results.set
                /\ ui.synth_input = search_results.items
                /\ AllDocuments(ui.synth_input)
    /\ (mode = "dl" /\ (~distilled_articles.set \/ distilled_articles.items = <<>>)) =>
          /\ calls.synth = 0
          /\ ~ui.report_button
          /\ ui.tabs => DistillFirstShown

\* a report was generated from two distilled records
ReportFromTwoRecords ==
    /\ mode = "dl"
    /\ calls.synth = 1
    /\ Len(ui.synth_input) = 2
    /\ ui.report = "- Credit rises to $7,500"


-----------------------------------------------------------------------------
\* sub is seq with some of its elements left out: the elements of sub are
\* elements of seq, as they are in seq, in the order of seq, none repeated
RECURSIVE IsSubsequence(_, _)
IsSubsequence(sub, seq) ==
    IF sub = <<>> THEN TRUE
    ELSE IF seq = <<>> THEN FALSE
    ELSE IF Head(sub) = Head(seq) THEN IsSubsequence(Tail(sub), Tail(seq))
    ELSE IsSubsequence(sub, Tail(seq))

\* the Search run on the page got a list back from filter_accessible_content
FilterReturned ==
    /\ mode = "app3"
    /\ ui.search_query # None
    /\ calls.query # None
    /\ \A i \in 1..Len(ui.msgs) : ui.msgs[i].what # "error_occurred"

\* C28: filter_accessible_content returns its input with some items left
\* out: every item it returns is an item of the input with the same url,
\* publication date and content, the items keep their order, none is
\* repeated, and it probes once for every item of the input.
FilterReturnsSubsequence ==
    FilterReturned =>
        /\ IsSubsequence(search_results.items, fetched)
        /\ calls.probe = Len(fetched)
        /\ Len(probes) = Len(fetched)

\* of two documents the filter kept the first and left the second out
FilterKeptFirstOfTwo ==
    /\ FilterReturned
    /\ Len(fetched) = 2
    /\ search_results.items = <<fetched[1]>>
    /\ calls.probe = 2


-----------------------------------------------------------------------------
\* C29: Distill Articles replaces the stored list.  After a Distill Articles
\* run, whatever the list held before, it holds one record per filtered
\* document of the stored results, in their order, with the url and the
\* publication date of its document.
DistillReplacesStoredList ==
    (mode = "dl" /\ DistillRunShown) =>
        /\ Urls(distilled_articles.items)
             = Urls(FilterForbidden(search_results.items).value)
        /\ \A j \in 1..Len(distilled_articles.items) :
              distilled_articles.items[j].publication_date
                 = FilterForbidden(search_results.items).value[j].publication_date

\* a Distill Articles run left two records for two filtered documents and
\* counted two
TwoRecordsForTwoDocuments ==
    /\ mode = "dl"
    /\ DistillRunShown
    /\ Len(FilterForbidden(search_results.items).value) = 2
    /\ Len(distilled_articles.items) = 2
    /\ ui.msgs[2] = Msg("success", "distilled", 2, 0)

=============================================================================
